---- MODULE Spec2Model ----
(***************************************************************************)
(* GcsStorageClient: the Google Cloud Storage backed CheckpointSyncer of   *)
(* hyperlane-base (rust/main/hyperlane-base/src/types/gcs_storage.rs).     *)
(*                                                                         *)
(* Strings and byte strings are sequences of tokens; a token is one        *)
(* character ("/", "0".."9") or one literal of the source that is never    *)
(* taken apart ("gcsLatestIndexKey", "checkpoint_", ...).                  *)
(***************************************************************************)
EXTENDS Integers, Sequences, FiniteSets, TLC

VARIABLES objects, calls, last, build, hist

vars == <<objects, calls, last, build, hist>>

---------------------------------------------------------------------------
(* Bounds of the model.                                                    *)

\* The arguments of write_latest_index and update_latest_index: 0..MaxIndex.
MaxIndex == 2

\* The embedded index of a checkpoint and the argument of fetch_checkpoint:
\* 0..MaxCheckpointIndex.
MaxCheckpointIndex == 1

\* Number of tasks that may be inside update_latest_index at the same time.
MaxTasks == 2

Indices == 0..MaxIndex

CheckpointIndices == 0..MaxCheckpointIndex

Tasks == 1..MaxTasks

---------------------------------------------------------------------------
(* Option and Result.                                                      *)

None == <<>>

Some(x) == <<x>>

Ok(v) == [tag |-> "Ok", val |-> v]

Err(e) == [tag |-> "Err", val |-> e]

---------------------------------------------------------------------------
(* Constants of the source.                                                *)

LATEST_INDEX_KEY == <<"gcsLatestIndexKey">>

METADATA_KEY == <<"gcsMetadataKey">>

ANNOUNCEMENT_KEY == <<"gcsAnnouncementKey">>

REORG_FLAG_KEY == <<"gcsReorgFlagKey">>

\* The literal object name write_announcement passes to object_path.
ANNOUNCEMENT_OBJECT == <<"announcement.json">>

---------------------------------------------------------------------------
(* Formatting and JSON.                                                    *)

\* Longest numeral the decoder of the model evaluates.
MaxDigits == 9

DigitChars == <<"0", "1", "2", "3", "4", "5", "6", "7", "8", "9">>

DigitSet == {DigitChars[i] : i \in 1..10}

DigitValue(c) == (CHOOSE i \in 1..10 : DigitChars[i] = c) - 1

RECURSIVE FormatU32(_)
\* Display of a u32 ({index} in format!, and serde_json of a u32): decimal digits.
FormatU32(n) ==
    IF n < 10 THEN <<DigitChars[n + 1]>>
    ELSE FormatU32(n \div 10) \o <<DigitChars[(n % 10) + 1]>>

RECURSIVE DigitsValue(_)
DigitsValue(s) ==
    IF Len(s) = 0 THEN 0
    ELSE 10 * DigitsValue(SubSeq(s, 1, Len(s) - 1)) + DigitValue(s[Len(s)])

\* serde_json::from_slice::<u32>: a JSON number without sign, fraction or
\* leading zero; everything else is a decode error.  (The numerals of the
\* model have at most MaxDigits digits, far below the u32 limit of 2^32.)
U32FromJson(bytes) ==
    IF /\ Len(bytes) > 0
       /\ Len(bytes) <= MaxDigits
       /\ \A i \in 1..Len(bytes) : bytes[i] \in DigitSet
       /\ (Len(bytes) > 1 => bytes[1] # "0")
    THEN Ok(DigitsValue(bytes))
    ELSE Err("decode")

\* serde_json::to_vec(&index)
U32ToJson(index) == FormatU32(index)

---------------------------------------------------------------------------
(* Domain values.  A SignedCheckpointWithMessageId carries value.index     *)
(* and, besides it, signed content that the syncer never inspects.         *)

Signatures == {"sigP", "sigQ"}

Checkpoints ==
    {[value |-> [index |-> i], signature |-> g] : i \in CheckpointIndices, g \in Signatures}

Metadatas == {"metaM"}

Announcements == {"annA"}

ReorgEvents == {"reorgR"}

\* serde_json::to_vec(signed_checkpoint)
CheckpointToJson(c) ==
    <<"{", "index", ":">> \o FormatU32(c.value.index)
        \o <<",", "signature", ":", c.signature, "}">>

\* serde_json::from_slice::<SignedCheckpointWithMessageId>
CheckpointFromJson(bytes) ==
    LET n == Len(bytes) IN
    IF /\ n >= 9
       /\ SubSeq(bytes, 1, 3) = <<"{", "index", ":">>
       /\ SubSeq(bytes, n - 4, n - 2) = <<",", "signature", ":">>
       /\ bytes[n] = "}"
       /\ bytes[n - 1] \in Signatures
       /\ U32FromJson(SubSeq(bytes, 4, n - 5)).tag = "Ok"
    THEN Ok([value |-> [index |-> U32FromJson(SubSeq(bytes, 4, n - 5)).val],
             signature |-> bytes[n - 1]])
    ELSE Err("decode")

\* serde_json::to_string_pretty(metadata).into_bytes()
MetadataToJson(metadata) == <<"{", "\n", metadata, "\n", "}">>

\* serde_json::to_vec(announcement)
AnnouncementToJson(announcement) == <<"{", announcement, "}">>

\* serde_json::to_string_pretty(reorged_event)
ReorgEventToJson(reorged_event) == <<"{", "\n", reorged_event, "\n", "}">>

---------------------------------------------------------------------------
(* Store identities: GcsStorageClient { inner, bucket, folder }.           *)

StoreA == [bucket |-> <<"test-bucket">>, folder |-> Some(<<"agent1">>)]

StoreB == [bucket |-> <<"test-bucket">>, folder |-> Some(<<"agent2", "/">>)]

\* The clients the agents hold, each the result of a successful build().
Stores == {StoreA, StoreB}

Buckets == {s.bucket : s \in Stores}

---------------------------------------------------------------------------
(* Key construction.                                                       *)

\* Faulty variant: the format string without its {index}.
get_checkpoint_key_no_index(index) == <<"checkpoint_", "_with_id.json">>

\* format!("checkpoint_{index}_with_id.json")
get_checkpoint_key(index) ==
    <<"checkpoint_">> \o FormatU32(index) \o <<"_with_id.json">>

\* Faulty variant: only one trailing ch is dropped.
trim_end_matches_once(str, ch) ==
    IF Len(str) > 0 /\ str[Len(str)] = ch THEN SubSeq(str, 1, Len(str) - 1) ELSE str

RECURSIVE trim_end_matches(_, _)
\* str::trim_end_matches(ch): drops every trailing ch.
trim_end_matches(str, ch) ==
    IF Len(str) > 0 /\ str[Len(str)] = ch
    THEN trim_end_matches(SubSeq(str, 1, Len(str) - 1), ch)
    ELSE str

object_path(self, object_name) ==
    IF self.folder # None
    THEN trim_end_matches(self.folder[1], "/") \o <<"/">> \o object_name
    ELSE object_name

\* str::contains('/') on the bucket name
validate_bucket_name(bucket) ==
    IF \E i \in 1..Len(bucket) : bucket[i] = "/"
    THEN Err("invalid bucket name")
    ELSE Ok(<<>>)

\* Faulty variant: the location follows the object that write_announcement
\* has stored, and falls back to the constant while there is none.
announcement_location_of_stored(self) ==
    <<"gs://">> \o self.bucket \o <<"/">>
        \o (IF <<self.bucket, object_path(self, ANNOUNCEMENT_OBJECT)>> \in DOMAIN objects
            THEN object_path(self, ANNOUNCEMENT_OBJECT)
            ELSE object_path(self, ANNOUNCEMENT_KEY))

announcement_location(self) ==
    <<"gs://">> \o self.bucket \o <<"/">> \o object_path(self, ANNOUNCEMENT_KEY)

---------------------------------------------------------------------------
(* The storage transport (ya_gcp StorageClient), as the syncer sees it.    *)
(* objects maps <<bucket, key>> to the bytes stored there.                 *)

HasObject(bucket, key) == <<bucket, key>> \in DOMAIN objects

\* No object has ever been put into the bucket (nothing deletes objects).
NeverWritten(bucket) == \A x \in DOMAIN objects : x[1] # bucket

Response(kind, data) == [kind |-> kind, data |-> data]

\* inner.get_object(bucket, key): the bytes of the object; for an absent
\* object the 404 status or, on a bucket never written before, InvalidName;
\* or any other failure of the transport.
get_object(bucket, key) ==
    {Response("Failure", <<>>)}
        \cup (IF HasObject(bucket, key)
              THEN {Response("Ok", objects[<<bucket, key>>])}
              ELSE {Response("NotFound", <<>>)})
        \cup (IF NeverWritten(bucket) THEN {Response("InvalidName", <<>>)} ELSE {})

\* inner.insert_object(bucket, key, data): the object is created or replaced
\* as a whole, or the transport fails and nothing is stored.
InsertOutcomes == {"Inserted", "InsertFailure"}

\* Faulty variant: the data is appended to the object that is there.
Stored_appended(objs, bucket, key, data) ==
    [x \in DOMAIN objs \cup {<<bucket, key>>} |->
        IF x = <<bucket, key>>
        THEN (IF x \in DOMAIN objs THEN objs[x] \o data ELSE data)
        ELSE objs[x]]

Stored(objs, bucket, key, data) ==
    [x \in DOMAIN objs \cup {<<bucket, key>>} |->
        IF x = <<bucket, key>> THEN data ELSE objs[x]]

insert_object(bucket, key, data, outcome) ==
    objects' = IF outcome = "Inserted" THEN Stored(objects, bucket, key, data) ELSE objects

InsertResult(outcome) == IF outcome = "Inserted" THEN Ok(<<>>) ELSE Err("transport")

---------------------------------------------------------------------------
(* The value each read returns for a response of the transport.            *)

\* Faulty variant: an object that does not decode is reported as absent.
latest_index_lenient(resp) ==
    CASE resp.kind = "Ok" ->
            IF U32FromJson(resp.data).tag = "Ok"
            THEN Ok(Some(U32FromJson(resp.data).val))
            ELSE Ok(None)
      [] resp.kind = "InvalidName" -> Ok(None)
      [] resp.kind = "NotFound" -> Ok(None)
      [] OTHER -> Err("transport")

\* Faulty variant: a failure of the transport is reported as absent.
latest_index_absent_on_failure(resp) ==
    CASE resp.kind = "Ok" ->
            IF U32FromJson(resp.data).tag = "Ok"
            THEN Ok(Some(U32FromJson(resp.data).val))
            ELSE Err("decode")
      [] OTHER -> Ok(None)

latest_index(resp) ==
    CASE resp.kind = "Ok" ->
            IF U32FromJson(resp.data).tag = "Ok"
            THEN Ok(Some(U32FromJson(resp.data).val))
            ELSE Err("decode")
      [] resp.kind = "InvalidName" -> Ok(None)
      [] resp.kind = "NotFound" -> Ok(None)
      [] OTHER -> Err("transport")

fetch_checkpoint(resp) ==
    CASE resp.kind = "Ok" ->
            IF CheckpointFromJson(resp.data).tag = "Ok"
            THEN Ok(Some(CheckpointFromJson(resp.data).val))
            ELSE Err("decode")
      [] resp.kind = "NotFound" -> Ok(None)
      [] OTHER -> Err("transport")

\* Faulty variant: the test with >= for >.
should_write_ge(index, curr) == index >= curr

\* The test of update_latest_index: if index > curr
should_write(index, curr) == index > curr

\* Faulty variant: the stored value is dropped and the default always taken.
unwrap_or_default_only(opt, default) == default

\* Option::unwrap_or
unwrap_or(opt, default) == IF opt = None THEN default ELSE opt[1]

\* The key write_announcement stores to.
announcement_object_name(self) == object_path(self, ANNOUNCEMENT_OBJECT)

\* The key write_metadata stores to.
metadata_object_name(self) == object_path(self, METADATA_KEY)

---------------------------------------------------------------------------
(* State.  calls[t] is task t's position inside update_latest_index; last  *)
(* is the call that returned most recently; build is the position of a     *)
(* GcsStorageClientBuilder::build call.  hist is a history variable: per   *)
(* bucket the largest index update_latest_index was called with            *)
(* (max_issued) and the indices it stored (committed), per                 *)
(* <<bucket, index>> the checkpoint write_checkpoint stored there last     *)
(* (written), and per bucket the latest index it held at the start         *)
(* (initial).                                                              *)

Returned(op, self, arg, resp, res) ==
    [op |-> op, st |-> self, arg |-> arg, resp |-> resp, res |-> res]

IdleCall == [pc |-> "idle", st |-> <<>>, index |-> 0, curr |-> 0]

IdleBuild ==
    [pc |-> "idle", auth |-> "", bucket |-> <<>>, folder |-> None,
     contacted |-> FALSE, inner |-> FALSE, res |-> None]

Init ==
    /\ objects = <<>>
    /\ calls = [t \in Tasks |-> IdleCall]
    /\ last = Returned("none", <<>>, <<>>, Response("none", <<>>), Ok(<<>>))
    /\ build = IdleBuild
    /\ hist = [max_issued |-> [b \in Buckets |-> None],
               committed |-> [b \in Buckets |-> {}],
               written |-> <<>>,
               initial |-> [b \in Buckets |-> None]]

\* The state in which a bucket already holds a latest index, stored by calls
\* that have returned, or holds none; hist.initial keeps that index.
InitRace ==
    \E v0 \in {None} \cup {Some(i) : i \in Indices} :
        /\ objects = IF v0 = None THEN <<>>
                     ELSE [x \in {<<b, LATEST_INDEX_KEY>> : b \in Buckets} |->
                              U32ToJson(v0[1])]
        /\ calls = [t \in Tasks |-> IdleCall]
        /\ last = Returned("none", <<>>, <<>>, Response("none", <<>>), Ok(<<>>))
        /\ build = IdleBuild
        /\ hist = [max_issued |-> [b \in Buckets |-> None],
                   committed |-> [b \in Buckets |-> {}],
                   written |-> <<>>,
                   initial |-> [b \in Buckets |-> v0]]

\* The state in which write_metadata, write_announcement and
\* write_reorg_status of StoreA have stored their objects and returned.
InitFrame ==
    /\ \E metadata \in Metadatas, announcement \in Announcements,
          reorged_event \in ReorgEvents :
          objects =
              Stored(Stored(Stored(<<>>, StoreA.bucket, metadata_object_name(StoreA),
                                   MetadataToJson(metadata)),
                            StoreA.bucket, announcement_object_name(StoreA),
                            AnnouncementToJson(announcement)),
                     StoreA.bucket, REORG_FLAG_KEY, ReorgEventToJson(reorged_event))
    /\ calls = [t \in Tasks |-> IdleCall]
    /\ last = Returned("none", <<>>, <<>>, Response("none", <<>>), Ok(<<>>))
    /\ build = IdleBuild
    /\ hist = [max_issued |-> [b \in Buckets |-> None],
               committed |-> [b \in Buckets |-> {}],
               written |-> <<>>,
               initial |-> [b \in Buckets |-> None]]

---------------------------------------------------------------------------
(* The operations of CheckpointSyncer for GcsStorageClient.                *)

LatestIndex(self, resp) ==
    /\ resp \in get_object(self.bucket, LATEST_INDEX_KEY)
    /\ last' = Returned("latest_index", self, <<>>, resp, latest_index(resp))
    /\ UNCHANGED <<objects, calls, build, hist>>

WriteLatestIndex(self, index, outcome) ==
    /\ outcome \in InsertOutcomes
    /\ insert_object(self.bucket, LATEST_INDEX_KEY, U32ToJson(index), outcome)
    /\ last' = Returned("write_latest_index", self, index,
                        Response(outcome, <<>>), InsertResult(outcome))
    /\ UNCHANGED <<calls, build, hist>>

\* update_latest_index up to the await of latest_index: the error of the
\* read is returned; index <= curr returns Ok without a write; otherwise the
\* task goes on to write_latest_index.
UpdateRead(t, self, index, resp) ==
    /\ calls[t].pc = "idle"
    /\ resp \in get_object(self.bucket, LATEST_INDEX_KEY)
    /\ IF latest_index(resp).tag = "Err"
       THEN /\ last' = Returned("update_latest_index", self, index, resp, latest_index(resp))
            /\ UNCHANGED calls
       ELSE IF should_write(index, unwrap_or(latest_index(resp).val, 0))
       THEN /\ calls' = [calls EXCEPT ![t] =
                            [pc |-> "write", st |-> self, index |-> index,
                             curr |-> unwrap_or(latest_index(resp).val, 0)]]
            /\ UNCHANGED last
       ELSE /\ last' = Returned("update_latest_index", self, index, resp, Ok(<<>>))
            /\ UNCHANGED calls
    /\ hist' = [hist EXCEPT !.max_issued[self.bucket] =
                                IF @ # None /\ @[1] >= index THEN @ ELSE Some(index)]
    /\ UNCHANGED <<objects, build>>

\* Faulty variant: the write is conditional on the object still holding the
\* value the task read (a compare-and-swap); otherwise nothing is stored.
UpdateWrite_cas(t, outcome) ==
    /\ calls[t].pc = "write"
    /\ outcome \in InsertOutcomes
    /\ insert_object(calls[t].st.bucket, LATEST_INDEX_KEY, U32ToJson(calls[t].index),
                     IF unwrap_or(latest_index(
                            IF HasObject(calls[t].st.bucket, LATEST_INDEX_KEY)
                            THEN Response("Ok", objects[<<calls[t].st.bucket, LATEST_INDEX_KEY>>])
                            ELSE Response("NotFound", <<>>)).val, 0) = calls[t].curr
                     THEN outcome ELSE "InsertFailure")
    /\ last' = Returned("update_latest_index", calls[t].st, calls[t].index,
                        Response(outcome, <<>>), InsertResult(outcome))
    /\ calls' = [calls EXCEPT ![t] = IdleCall]
    /\ hist' = IF outcome = "Inserted"
               THEN [hist EXCEPT !.committed[calls[t].st.bucket] = @ \cup {calls[t].index}]
               ELSE hist
    /\ UNCHANGED build

\* update_latest_index from the await of write_latest_index to its return.
UpdateWrite(t, outcome) ==
    /\ calls[t].pc = "write"
    /\ outcome \in InsertOutcomes
    /\ insert_object(calls[t].st.bucket, LATEST_INDEX_KEY, U32ToJson(calls[t].index), outcome)
    /\ last' = Returned("update_latest_index", calls[t].st, calls[t].index,
                        Response(outcome, <<>>), InsertResult(outcome))
    /\ calls' = [calls EXCEPT ![t] = IdleCall]
    /\ hist' = IF outcome = "Inserted"
               THEN [hist EXCEPT !.committed[calls[t].st.bucket] = @ \cup {calls[t].index}]
               ELSE hist
    /\ UNCHANGED build

FetchCheckpoint(self, index) ==
    \E resp \in get_object(self.bucket, get_checkpoint_key(index)) :
        /\ last' = Returned("fetch_checkpoint", self, index, resp, fetch_checkpoint(resp))
        /\ UNCHANGED <<objects, calls, build, hist>>

\* Faulty variant: the write of a checkpoint also stores its index as the
\* latest index.
WriteCheckpoint_and_latest(self, signed_checkpoint, outcome) ==
    /\ outcome \in InsertOutcomes
    /\ objects' = IF outcome = "Inserted"
                  THEN Stored(Stored(objects, self.bucket,
                                     get_checkpoint_key(signed_checkpoint.value.index),
                                     CheckpointToJson(signed_checkpoint)),
                              self.bucket, LATEST_INDEX_KEY,
                              U32ToJson(signed_checkpoint.value.index))
                  ELSE objects
    /\ last' = Returned("write_checkpoint", self, signed_checkpoint,
                        Response(outcome, <<>>), InsertResult(outcome))
    /\ hist' = IF outcome = "Inserted"
               THEN [hist EXCEPT !.written =
                        Stored(@, self.bucket, signed_checkpoint.value.index,
                               signed_checkpoint)]
               ELSE hist
    /\ UNCHANGED <<calls, build>>

WriteCheckpoint(self, signed_checkpoint, outcome) ==
    /\ outcome \in InsertOutcomes
    /\ insert_object(self.bucket, get_checkpoint_key(signed_checkpoint.value.index),
                     CheckpointToJson(signed_checkpoint), outcome)
    /\ last' = Returned("write_checkpoint", self, signed_checkpoint,
                        Response(outcome, <<>>), InsertResult(outcome))
    /\ hist' = IF outcome = "Inserted"
               THEN [hist EXCEPT !.written =
                        Stored(@, self.bucket, signed_checkpoint.value.index,
                               signed_checkpoint)]
               ELSE hist
    /\ UNCHANGED <<calls, build>>

WriteMetadata(self, metadata, outcome) ==
    /\ outcome \in InsertOutcomes
    /\ insert_object(self.bucket, metadata_object_name(self),
                     MetadataToJson(metadata), outcome)
    /\ last' = Returned("write_metadata", self, metadata,
                        Response(outcome, <<>>), InsertResult(outcome))
    /\ UNCHANGED <<calls, build, hist>>

WriteAnnouncement(self, announcement, outcome) ==
    /\ outcome \in InsertOutcomes
    /\ insert_object(self.bucket, announcement_object_name(self),
                     AnnouncementToJson(announcement), outcome)
    /\ last' = Returned("write_announcement", self, announcement,
                        Response(outcome, <<>>), InsertResult(outcome))
    /\ UNCHANGED <<calls, build, hist>>

AnnouncementLocation(self) ==
    /\ last' = Returned("announcement_location", self, <<>>, Response("none", <<>>),
                        announcement_location(self))
    /\ UNCHANGED <<objects, calls, build, hist>>

WriteReorgStatus(self, reorged_event, outcome) ==
    /\ outcome \in InsertOutcomes
    /\ insert_object(self.bucket, REORG_FLAG_KEY, ReorgEventToJson(reorged_event), outcome)
    /\ last' = Returned("write_reorg_status", self, reorged_event,
                        Response(outcome, <<>>), InsertResult(outcome))
    /\ UNCHANGED <<calls, build, hist>>

\* Faulty variant: the event of a stored reorg flag is reported.
ReorgStatus_reads_flag(self) ==
    /\ last' = Returned("reorg_status", self, <<>>, Response("none", <<>>),
                        IF HasObject(self.bucket, REORG_FLAG_KEY)
                        THEN Ok(Some(objects[<<self.bucket, REORG_FLAG_KEY>>]))
                        ELSE Ok(None))
    /\ UNCHANGED <<objects, calls, build, hist>>

ReorgStatus(self) ==
    /\ last' = Returned("reorg_status", self, <<>>, Response("none", <<>>), Ok(None))
    /\ UNCHANGED <<objects, calls, build, hist>>

---------------------------------------------------------------------------
(* A writer that is not the syncer: the bucket is shared storage, and the  *)
(* bytes a read gets back need not be bytes the syncer stored.             *)

ForeignBytes == {<<>>, <<"0", "1">>, <<"{", "index", ":", "1">>}

ExternalPut(bucket, key, data) ==
    /\ objects' = Stored(objects, bucket, key, data)
    /\ hist' = [hist EXCEPT !.written =
                   [x \in {y \in DOMAIN @ : get_checkpoint_key(y[2]) # key \/ y[1] # bucket}
                       |-> @[x]]]
    /\ last' = Returned("external_put", <<>>, key, Response("none", <<>>), Ok(<<>>))
    /\ UNCHANGED <<calls, build>>

---------------------------------------------------------------------------
(* GcsStorageClientBuilder::build(bucket_name, folder).  build.contacted   *)
(* says that ClientBuilder::new, which sets up the auth flow and the       *)
(* connection of the transport, has run; build.inner that it gave a client.*)

AuthFlows == {"NoAuth", "ServiceAccount", "UserAccount"}

BucketNames == {<<"test-bucket">>, <<"test", "/", "bucket">>, <<"/">>}

Folders == {None, Some(<<>>), Some(<<"agent1">>), Some(<<"agent1", "/">>),
            Some(<<"agent1", "/", "/">>)}

\* ClientBuilder::new(config).await: the client, an error (returned by ?),
\* or, with a credential file that is missing or faulty, a panic.
NewClientOutcomes == {"client", "error", "panic"}

BuildCall(auth, bucket_name, folder) ==
    /\ build.pc = "idle"
    /\ build' = [pc |-> "new_client", auth |-> auth, bucket |-> bucket_name,
                 folder |-> folder, contacted |-> FALSE, inner |-> FALSE, res |-> None]
    /\ UNCHANGED <<objects, calls, last, hist>>

\* let inner = ClientBuilder::new(...).await?.build_storage_client();
BuildNewClient(outcome) ==
    /\ build.pc = "new_client"
    /\ outcome = "panic" => build.auth # "NoAuth"
    /\ build' = CASE outcome = "client" ->
                        [build EXCEPT !.pc = "validate", !.contacted = TRUE, !.inner = TRUE]
                  [] outcome = "error" ->
                        [build EXCEPT !.pc = "done", !.contacted = TRUE,
                                      !.res = Some(Err("client builder"))]
                  [] OTHER ->
                        [build EXCEPT !.pc = "done", !.contacted = TRUE,
                                      !.res = Some(Err("panic"))]
    /\ UNCHANGED <<objects, calls, last, hist>>

\* GcsStorageClient::validate_bucket_name(&bucket)?; Ok(GcsStorageClient { .. })
BuildValidate ==
    /\ build.pc = "validate"
    /\ build' = [build EXCEPT
                    !.pc = "done",
                    !.res = IF validate_bucket_name(build.bucket).tag = "Err"
                            THEN Some(validate_bucket_name(build.bucket))
                            ELSE Some(Ok([bucket |-> build.bucket, folder |-> build.folder]))]
    /\ UNCHANGED <<objects, calls, last, hist>>

\* The caller has the result; the builder is consumed.
BuildReturn ==
    /\ build.pc = "done"
    /\ build' = IdleBuild
    /\ UNCHANGED <<objects, calls, last, hist>>

---------------------------------------------------------------------------
(* Specifications.                                                         *)

AllIdle == \A t \in Tasks : calls[t].pc = "idle"

\* Tasks calling update_latest_index concurrently; nothing else writes.
NextUpdate ==
    \/ \E t \in Tasks, self \in Stores, index \in Indices :
          \E resp \in get_object(self.bucket, LATEST_INDEX_KEY) :
              UpdateRead(t, self, index, resp)
    \/ \E t \in Tasks, outcome \in InsertOutcomes : UpdateWrite(t, outcome)

SpecUpdate == Init /\ [][NextUpdate]_vars

\* Tasks calling update_latest_index concurrently on a bucket that may hold a
\* latest index already, the transport answering every request.
NextRace ==
    \/ \E t \in Tasks, self \in Stores, index \in Indices :
          \E resp \in get_object(self.bucket, LATEST_INDEX_KEY) :
              /\ resp.kind # "Failure"
              /\ UpdateRead(t, self, index, resp)
    \/ \E t \in Tasks : UpdateWrite(t, "Inserted")

SpecRace == InitRace /\ [][NextRace]_vars

\* update_latest_index calls one after the other, the transport never failing,
\* and latest_index between them.
NextSerial ==
    \/ \E t \in Tasks, self \in Stores, index \in Indices :
          \E resp \in get_object(self.bucket, LATEST_INDEX_KEY) :
              /\ AllIdle
              /\ resp.kind # "Failure"
              /\ UpdateRead(t, self, index, resp)
    \/ \E t \in Tasks : UpdateWrite(t, "Inserted")
    \/ \E self \in Stores :
          \E resp \in get_object(self.bucket, LATEST_INDEX_KEY) :
              /\ AllIdle
              /\ resp.kind # "Failure"
              /\ LatestIndex(self, resp)

SpecSerial == Init /\ [][NextSerial]_vars

\* The reads and writes of the latest index and of the checkpoints.
Next ==
    \/ \E self \in Stores :
          \E resp \in get_object(self.bucket, LATEST_INDEX_KEY) : LatestIndex(self, resp)
    \/ \E self \in Stores, index \in Indices, outcome \in InsertOutcomes :
          WriteLatestIndex(self, index, outcome)
    \/ \E self \in Stores, index \in CheckpointIndices : FetchCheckpoint(self, index)
    \/ \E self \in Stores, c \in Checkpoints, outcome \in InsertOutcomes :
          WriteCheckpoint(self, c, outcome)

Spec == Init /\ [][Next]_vars

\* The same, in a bucket that a writer other than the syncer also puts to.
NextCorrupt ==
    \/ Next
    \/ \E bucket \in Buckets, index \in CheckpointIndices, data \in ForeignBytes :
          \/ ExternalPut(bucket, LATEST_INDEX_KEY, data)
          \/ ExternalPut(bucket, get_checkpoint_key(index), data)

SpecCorrupt == Init /\ [][NextCorrupt]_vars

\* The reads, and update_latest_index one call at a time, in a bucket whose
\* latest-index object a writer other than the syncer also puts.
NextFailing ==
    \/ \E self \in Stores :
          \E resp \in get_object(self.bucket, LATEST_INDEX_KEY) : LatestIndex(self, resp)
    \/ \E self \in Stores, index \in CheckpointIndices : FetchCheckpoint(self, index)
    \/ \E t \in Tasks, self \in Stores, index \in Indices :
          \E resp \in get_object(self.bucket, LATEST_INDEX_KEY) :
              /\ AllIdle
              /\ UpdateRead(t, self, index, resp)
    \/ \E t \in Tasks, outcome \in InsertOutcomes : UpdateWrite(t, outcome)
    \/ \E bucket \in Buckets, data \in ForeignBytes :
          ExternalPut(bucket, LATEST_INDEX_KEY, data)

SpecFailing == Init /\ [][NextFailing]_vars

\* The writes of the latest index and of the checkpoints,
\* update_latest_index(MaxIndex) one call at a time, the transport storing
\* each write, and fetch_checkpoint, in a bucket that holds metadata,
\* announcement and reorg flag.
NextFrame ==
    \/ \E self \in Stores, index \in Indices : WriteLatestIndex(self, index, "Inserted")
    \/ \E self \in Stores, c \in Checkpoints : WriteCheckpoint(self, c, "Inserted")
    \/ \E self \in Stores, index \in CheckpointIndices : FetchCheckpoint(self, index)
    \/ \E t \in Tasks, self \in Stores :
          \E resp \in get_object(self.bucket, LATEST_INDEX_KEY) :
              /\ AllIdle
              /\ resp.kind # "Failure"
              /\ UpdateRead(t, self, MaxIndex, resp)
    \/ \E t \in Tasks : UpdateWrite(t, "Inserted")

SpecFrame == InitFrame /\ [][NextFrame]_vars

\* Every write of the syncer, the transport storing each.  (A write the
\* transport fails stores nothing; Spec and SpecSlots have those.)
NextWrites ==
    \/ \E self \in Stores, index \in Indices : WriteLatestIndex(self, index, "Inserted")
    \/ \E self \in Stores, c \in Checkpoints : WriteCheckpoint(self, c, "Inserted")
    \/ \E self \in Stores, metadata \in Metadatas :
          WriteMetadata(self, metadata, "Inserted")
    \/ \E self \in Stores, announcement \in Announcements :
          WriteAnnouncement(self, announcement, "Inserted")
    \/ \E self \in Stores, reorged_event \in ReorgEvents :
          WriteReorgStatus(self, reorged_event, "Inserted")

SpecWrites == Init /\ [][NextWrites]_vars

\* The single-slot objects: metadata, announcement and reorg flag.
NextSlots ==
    \/ \E self \in Stores, metadata \in Metadatas, outcome \in InsertOutcomes :
          WriteMetadata(self, metadata, outcome)
    \/ \E self \in Stores, announcement \in Announcements, outcome \in InsertOutcomes :
          WriteAnnouncement(self, announcement, outcome)
    \/ \E self \in Stores : AnnouncementLocation(self)
    \/ \E self \in Stores, reorged_event \in ReorgEvents, outcome \in InsertOutcomes :
          WriteReorgStatus(self, reorged_event, outcome)
    \/ \E self \in Stores : ReorgStatus(self)

SpecSlots == Init /\ [][NextSlots]_vars

\* The clients that build() gives for one bucket and each folder of Folders.
FolderStores == {[bucket |-> b, folder |-> f] : b \in Buckets, f \in Folders}

\* Every write of the syncer by clients of every folder, the transport storing
\* each; one value per kind of object.
NextKeys ==
    \/ \E self \in FolderStores : WriteLatestIndex(self, MaxIndex, "Inserted")
    \/ \E self \in FolderStores, c \in Checkpoints :
          /\ c.value.index = MaxCheckpointIndex
          /\ c.signature = "sigP"
          /\ WriteCheckpoint(self, c, "Inserted")
    \/ \E self \in FolderStores, metadata \in Metadatas :
          WriteMetadata(self, metadata, "Inserted")
    \/ \E self \in FolderStores, announcement \in Announcements :
          WriteAnnouncement(self, announcement, "Inserted")
    \/ \E self \in FolderStores, reorged_event \in ReorgEvents :
          WriteReorgStatus(self, reorged_event, "Inserted")

SpecKeys == Init /\ [][NextKeys]_vars

\* GcsStorageClientBuilder::build.
NextBuild ==
    \/ \E auth \in AuthFlows, bucket_name \in BucketNames, folder \in Folders :
          BuildCall(auth, bucket_name, folder)
    \/ \E outcome \in NewClientOutcomes : BuildNewClient(outcome)
    \/ BuildValidate
    \/ BuildReturn

SpecBuild == Init /\ [][NextBuild]_vars

---------------------------------------------------------------------------
(* Properties.                                                             *)

\* The latest index a bucket holds in objs, if it holds one.
StoredLatest(objs, bucket) ==
    IF <<bucket, LATEST_INDEX_KEY>> \in DOMAIN objs
    THEN Some(U32FromJson(objs[<<bucket, LATEST_INDEX_KEY>>]).val)
    ELSE None

\* The object a bucket holds in objs under key, if it holds one.
ObjectAt(objs, bucket, key) ==
    IF <<bucket, key>> \in DOMAIN objs THEN Some(objs[<<bucket, key>>]) ELSE None

Max(S) == CHOOSE x \in S : \A y \in S : y <= x

Min(S) == CHOOSE x \in S : \A y \in S : x <= y

IsRead(op) == op \in {"latest_index", "fetch_checkpoint"}

\* C1, as stated: with update_latest_index the only writer, no step replaces
\* the stored latest index by a smaller one.
C1_NeverDecreases ==
    [][\A b \in Buckets :
          (StoredLatest(objects, b) # None /\ StoredLatest(objects', b) # None)
              => StoredLatest(objects', b)[1] >= StoredLatest(objects, b)[1]]_vars

\* C1, amended: every write of update_latest_index stores its caller's index,
\* which is strictly greater than the value that caller read (absent read as
\* 0), and the stored latest index is never less than the smallest index
\* committed so far.
C1_WritesAboveObserved ==
    [][\A t \in Tasks :
          (calls[t].pc = "write" /\ calls'[t].pc = "idle" /\ last'.resp.kind = "Inserted")
              => /\ calls[t].index > calls[t].curr
                 /\ StoredLatest(objects', calls[t].st.bucket) = Some(calls[t].index)
                 /\ calls[t].index >= Min(hist'.committed[calls[t].st.bucket])
                 /\ calls[t].index > 0]_vars

\* C1, witness: every call has returned and the stored latest index is below
\* an index that a caller committed.
C1_Witness ==
    /\ AllIdle
    /\ \E b \in Buckets :
          /\ StoredLatest(objects, b) # None
          /\ hist.committed[b] # {}
          /\ StoredLatest(objects, b)[1] < Max(hist.committed[b])

\* C2: on a bucket never written, latest_index and fetch_checkpoint return
\* Ok(None) whenever the transport answers at all.
C2_FreshStoreAbsence ==
    (IsRead(last.op) /\ last.resp.kind # "Failure" /\ NeverWritten(last.st.bucket))
        => last.res = Ok(None)

\* C3: latest_index and fetch_checkpoint return Ok(None) for both shapes of
\* absence, the 404 status and InvalidName.
C3_BothShapesAreNone ==
    (IsRead(last.op) /\ last.resp.kind \in {"NotFound", "InvalidName"})
        => last.res = Ok(None)

\* C4: once a checkpoint has been written to a bucket, fetch_checkpoint(i)
\* returns the checkpoint last written at i, equal to what was written, and
\* None for an index never written (the transport answering).
C4_RoundTrip ==
    (/\ last.op = "fetch_checkpoint"
     /\ last.resp.kind # "Failure"
     /\ \E x \in DOMAIN hist.written : x[1] = last.st.bucket)
        => last.res = IF <<last.st.bucket, last.arg>> \in DOMAIN hist.written
                      THEN Ok(Some(hist.written[<<last.st.bucket, last.arg>>]))
                      ELSE Ok(None)

\* C4, witness: a fetch has returned the checkpoint written at its index while
\* another index of the bucket has never been written.
C4_Witness ==
    /\ last.op = "fetch_checkpoint"
    /\ <<last.st.bucket, last.arg>> \in DOMAIN hist.written
    /\ last.res = Ok(Some(hist.written[<<last.st.bucket, last.arg>>]))
    /\ \E j \in CheckpointIndices : <<last.st.bucket, j>> \notin DOMAIN hist.written

\* C5, as stated: after serial calls update_latest_index(i_1..i_n) on a bucket
\* without a latest-index object, latest_index returns Some(max(i_1..i_n)).
C5_SerialMaxAlwaysSome ==
    (AllIdle /\ last.op = "latest_index" /\ hist.max_issued[last.st.bucket] # None)
        => last.res = Ok(Some(hist.max_issued[last.st.bucket][1]))

\* C5, amended: latest_index then returns Some(max(i_1..i_n)) if that maximum
\* is above 0; if every i_k is 0 nothing was written and it returns None.
C5_SerialMax ==
    \A b \in Buckets :
        (AllIdle /\ hist.max_issued[b] # None)
            => /\ StoredLatest(objects, b) =
                      IF hist.max_issued[b][1] > 0 THEN hist.max_issued[b] ELSE None
               /\ (last.op = "latest_index" /\ last.st.bucket = b)
                      => last.res = Ok(IF hist.max_issued[b][1] > 0
                                       THEN hist.max_issued[b] ELSE None)

\* C5, witness: after serial calls, the largest of them with index MaxIndex,
\* latest_index has returned Some(MaxIndex).
C5_Witness ==
    /\ AllIdle
    /\ last.op = "latest_index"
    /\ hist.max_issued[last.st.bucket] = Some(MaxIndex)
    /\ last.res = Ok(Some(MaxIndex))

\* C6: announcement_location is "gs://{bucket}/{key}" with the key that
\* write_announcement stores to.
C6_LocationOfWrittenObject ==
    last.op = "announcement_location"
        => last.res = <<"gs://">> \o last.st.bucket \o <<"/">>
                          \o announcement_object_name(last.st)

\* The keys a store reads or writes.
StoreKeys(self) ==
    {LATEST_INDEX_KEY, REORG_FLAG_KEY, metadata_object_name(self),
     announcement_object_name(self)}
        \cup {get_checkpoint_key(i) : i \in CheckpointIndices}

\* C7: a write of one store changes no object under a key that a store of
\* another identity reads or writes.
C7_KeyIsolation ==
    [][\A s1 \in Stores, s2 \in Stores :
          (objects' # objects /\ last'.st = s1 /\ s2 # s1)
              => \A k \in StoreKeys(s2) :
                    ObjectAt(objects', s2.bucket, k) = ObjectAt(objects, s2.bucket, k)]_vars

\* C8, as stated: a checkpoint object, once written, is never deleted and never
\* replaced by different bytes.
C8_NeverReplaced ==
    [][\A b \in Buckets, i \in CheckpointIndices :
          HasObject(b, get_checkpoint_key(i))
              => ObjectAt(objects', b, get_checkpoint_key(i))
                     = ObjectAt(objects, b, get_checkpoint_key(i))]_vars

\* C8, amended: a checkpoint object, once written, is never deleted, and the
\* only operation that replaces it is a write_checkpoint on its bucket with a
\* checkpoint of the same index, whose bytes it then holds.
C8_ReplacedOnlyByWriteCheckpoint ==
    [][\A b \in Buckets, i \in CheckpointIndices :
          HasObject(b, get_checkpoint_key(i))
              => /\ HasObject(b, get_checkpoint_key(i))'
                 /\ objects'[<<b, get_checkpoint_key(i)>>]
                        # objects[<<b, get_checkpoint_key(i)>>]
                    => /\ last'.op = "write_checkpoint"
                       /\ last'.st.bucket = b
                       /\ last'.arg.value.index = i
                       /\ objects'[<<b, get_checkpoint_key(i)>>]
                              = CheckpointToJson(last'.arg)]_vars

\* C8, witness: a write_checkpoint has stored its checkpoint in a bucket that
\* holds the checkpoint of another index and the store's metadata object.
C8_Witness ==
    /\ last.op = "write_checkpoint"
    /\ last.resp.kind = "Inserted"
    /\ \E j \in CheckpointIndices :
          /\ j # last.arg.value.index
          /\ HasObject(last.st.bucket, get_checkpoint_key(j))
    /\ HasObject(last.st.bucket, metadata_object_name(last.st))

\* C9: build with a bucket name containing '/' fails with the validation
\* error, and ClientBuilder::new has not run.
C9_ValidationBeforeClient ==
    (build.pc # "idle" /\ validate_bucket_name(build.bucket).tag = "Err")
        => /\ ~build.contacted
           /\ build.pc = "done" => build.res = Some(validate_bucket_name(build.bucket))

\* C10: latest_index and fetch_checkpoint return an error when the object
\* exists and its bytes do not decode.
C10_CorruptIsError ==
    /\ (last.op = "latest_index" /\ last.resp.kind = "Ok"
            /\ U32FromJson(last.resp.data).tag = "Err")
           => last.res.tag = "Err"
    /\ (last.op = "fetch_checkpoint" /\ last.resp.kind = "Ok"
            /\ CheckpointFromJson(last.resp.data).tag = "Err")
           => last.res.tag = "Err"

\* C10, witness: a read of an object whose bytes do not decode has returned.
C10_Witness ==
    /\ last.op = "fetch_checkpoint"
    /\ last.resp.kind = "Ok"
    /\ CheckpointFromJson(last.resp.data).tag = "Err"
    /\ last.res = Err("decode")

\* A folder without its trailing '/' characters: the prefix of it that does
\* not end in '/' and is followed by '/' characters only.
Stripped(folder) ==
    CHOOSE p \in {SubSeq(folder, 1, n) : n \in 0..Len(folder)} :
        /\ \A i \in (Len(p) + 1)..Len(folder) : folder[i] = "/"
        /\ (Len(p) > 0 => p[Len(p)] # "/")

\* "{folder with trailing '/' stripped}/{name}", or name without a folder.
Prefixed(self, name) ==
    IF self.folder = None THEN name ELSE Stripped(self.folder[1]) \o <<"/">> \o name

\* C11: announcement_location returns, in every state, "gs://{bucket}/{key}"
\* with the exact bucket name and the folder-prefixed ANNOUNCEMENT_KEY: a
\* string fixed by bucket and folder, whatever has been written.
C11_LocationIsPure ==
    last.op = "announcement_location"
        => last.res = <<"gs://">> \o last.st.bucket \o <<"/">>
                          \o Prefixed(last.st, ANNOUNCEMENT_KEY)

\* C11, witness: announcement_location has returned for a store with a folder
\* ending in '/' after write_announcement stored that store's announcement.
C11_Witness ==
    /\ last.op = "announcement_location"
    /\ last.st.folder # None
    /\ Stripped(last.st.folder[1]) # last.st.folder[1]
    /\ HasObject(last.st.bucket, announcement_object_name(last.st))

\* C12: reorg_status returns Ok(None) in every state, whatever
\* write_reorg_status has stored.
C12_ReorgStatusIsNone ==
    last.op = "reorg_status" => last.res = Ok(None)

\* C12, witness: reorg_status has returned Ok(None) while the bucket holds the
\* event that a write_reorg_status stored.
C12_Witness ==
    /\ last.op = "reorg_status"
    /\ last.res = Ok(None)
    /\ \E reorged_event \in ReorgEvents :
          ObjectAt(objects, last.st.bucket, REORG_FLAG_KEY)
              = Some(ReorgEventToJson(reorged_event))

SlotWrites == {"write_metadata", "write_announcement", "write_reorg_status"}

\* C13: a write_metadata, write_announcement or write_reorg_status that
\* follows a stored write of the same operation, store and value leaves every
\* object of the store as it was.
C13_IdempotentOverwrite ==
    [][(/\ last.op \in SlotWrites
        /\ last.resp.kind = "Inserted"
        /\ last'.op = last.op
        /\ last'.st = last.st
        /\ last'.arg = last.arg)
           => objects' = objects]_vars

\* C13, witness: the state that a stored write of a single-slot object leaves,
\* the first time and each time it is repeated: the slot holds the value's
\* bytes, beside the other two slots of the store.
C13_Witness ==
    /\ last.op = "write_metadata"
    /\ last.resp.kind = "Inserted"
    /\ ObjectAt(objects, last.st.bucket, metadata_object_name(last.st))
           = Some(MetadataToJson(last.arg))
    /\ HasObject(last.st.bucket, announcement_object_name(last.st))
    /\ HasObject(last.st.bucket, REORG_FLAG_KEY)

\* C14: the read and the conditional write of update_latest_index are
\* separate steps without compare-and-swap: the read changes no object and
\* fixes the task's decision on the value it saw; a task that has decided to
\* write keeps its decision while other tasks write; and its write, once
\* stored, replaces whatever the object holds at that moment.
C14_ReadThenUnconditionalWrite ==
    [][\A t \in Tasks :
          /\ (calls[t].pc = "idle" /\ calls'[t].pc = "write")
                => /\ objects' = objects
                   /\ calls'[t].curr
                          = unwrap_or(StoredLatest(objects, calls'[t].st.bucket), 0)
          /\ (calls[t].pc = "write" /\ calls'[t].pc = "write") => calls'[t] = calls[t]
          /\ (calls[t].pc = "write" /\ calls'[t].pc = "idle" /\ last'.resp.kind = "Inserted")
                => ObjectAt(objects', calls[t].st.bucket, LATEST_INDEX_KEY)
                       = Some(U32ToJson(calls[t].index))]_vars

\* C14, witness: two calls read the same value (no object, taken as 0) and
\* both decided to write; the first has stored its index, the only index
\* stored so far, and the second is about to replace it with a smaller one.
C14_Witness ==
    \E u \in Tasks :
        /\ calls[u].pc = "write"
        /\ calls[u].curr = 0
        /\ last.op = "update_latest_index"
        /\ last.resp.kind = "Inserted"
        /\ last.st.bucket = calls[u].st.bucket
        /\ hist.committed[calls[u].st.bucket] = {last.arg}
        /\ StoredLatest(objects, calls[u].st.bucket) = Some(last.arg)
        /\ calls[u].index < last.arg

\* The index that a response of the read stands for: absent counts as 0.
Observed(resp) == IF resp.kind = "Ok" THEN U32FromJson(resp.data).val ELSE 0

\* C15: update_latest_index goes on to write only if index is strictly above
\* the stored latest index (absent: 0); a call with index <= current returns
\* Ok, and no step other than the write of a call that decided to write
\* changes an object.
C15_WritesOnlyAbove ==
    [][/\ \A t \in Tasks :
             (calls[t].pc = "idle" /\ calls'[t].pc = "write")
                 => calls'[t].index > unwrap_or(StoredLatest(objects, calls'[t].st.bucket), 0)
       /\ (last'.op = "update_latest_index"
               /\ last'.resp.kind \in {"Ok", "NotFound", "InvalidName"})
             => /\ objects' = objects
                /\ last'.res = Ok(<<>>)
                /\ last'.arg <= Observed(last'.resp)
       /\ objects' # objects
             => \E t \in Tasks :
                   /\ calls[t].pc = "write"
                   /\ calls'[t].pc = "idle"
                   /\ objects' = Stored(objects, calls[t].st.bucket, LATEST_INDEX_KEY,
                                        U32ToJson(calls[t].index))]_vars

\* C15, witness: update_latest_index(0) has returned Ok on a bucket without a
\* latest-index object, and the bucket still has none.
C15_Witness ==
    /\ last.op = "update_latest_index"
    /\ last.arg = 0
    /\ last.resp.kind = "NotFound"
    /\ last.res = Ok(<<>>)
    /\ ~HasObject(last.st.bucket, LATEST_INDEX_KEY)

\* C16: a read that the transport fails returns an error; an
\* update_latest_index whose read fails, by the transport or by an object that
\* does not decode, returns that error, changes no object and issues no write.
C16_FailuresPropagate ==
    [][/\ (IsRead(last'.op) /\ last'.resp.kind = "Failure")
             => last'.res = Err("transport")
       /\ (last'.op = "update_latest_index" /\ last'.resp.kind = "Failure")
             => last'.res = Err("transport")
       /\ (last'.op = "update_latest_index" /\ last'.resp.kind = "Ok"
               /\ U32FromJson(last'.resp.data).tag = "Err")
             => last'.res = Err("decode")
       /\ (last'.op = "update_latest_index" /\ last'.res.tag = "Err"
               /\ last'.resp.kind \notin InsertOutcomes)
             => /\ objects' = objects
                /\ last' # last => calls' = calls]_vars

\* C16, witness: update_latest_index with an index above 0 has returned the
\* decode error of its read, and the object that does not decode is still there.
C16_Witness ==
    /\ last.op = "update_latest_index"
    /\ last.arg > 0
    /\ last.resp.kind = "Ok"
    /\ last.res = Err("decode")
    /\ ObjectAt(objects, last.st.bucket, LATEST_INDEX_KEY) = Some(last.resp.data)
    /\ AllIdle

\* The key each write is to store to: metadata and announcement under the
\* folder prefix, latest index, checkpoint and reorg flag without it.
ExpectedKey(op, self, arg) ==
    CASE op = "write_metadata" -> Prefixed(self, <<"gcsMetadataKey">>)
      [] op = "write_announcement" -> Prefixed(self, <<"announcement.json">>)
      [] op = "write_latest_index" -> <<"gcsLatestIndexKey">>
      [] op = "write_reorg_status" -> <<"gcsReorgFlagKey">>
      [] op = "write_checkpoint" ->
            <<"checkpoint_">> \o FormatU32(arg.value.index) \o <<"_with_id.json">>

\* Two folders that differ in trailing '/' characters only.
SameButTrailing(s1, s2) ==
    /\ s1.bucket = s2.bucket
    /\ s1.folder # None
    /\ s2.folder # None
    /\ Stripped(s1.folder[1]) = Stripped(s2.folder[1])

\* C17: object_path(name) is "{folder with trailing '/' stripped}/{name}" with
\* a folder and name without; each stored write changes the object under its
\* key, prefixed for metadata and announcement only, and no other object; and
\* stores whose folders differ in trailing '/' only have the same keys.
C17_FolderPrefixing ==
    /\ \A self \in FolderStores :
          \A name \in {METADATA_KEY, ANNOUNCEMENT_KEY, ANNOUNCEMENT_OBJECT} :
              object_path(self, name) = Prefixed(self, name)
    /\ \A s1 \in FolderStores, s2 \in FolderStores :
          SameButTrailing(s1, s2)
              => /\ StoreKeys(s1) = StoreKeys(s2)
                 /\ announcement_location(s1) = announcement_location(s2)
    /\ [][last'.resp.kind = "Inserted"
             => /\ DOMAIN objects'
                       = DOMAIN objects
                            \cup {<<last'.st.bucket, ExpectedKey(last'.op, last'.st, last'.arg)>>}
                /\ \A x \in DOMAIN objects :
                       x # <<last'.st.bucket, ExpectedKey(last'.op, last'.st, last'.arg)>>
                           => objects'[x] = objects[x]]_vars

\* C17, witness: a client whose folder ends in two '/' has stored metadata
\* under the stripped folder, not under the folder as given, in a bucket that
\* holds the latest index under its bare key.
C17_Witness ==
    /\ last.op = "write_metadata"
    /\ last.resp.kind = "Inserted"
    /\ last.st.folder # None
    /\ Len(last.st.folder[1]) >= Len(Stripped(last.st.folder[1])) + 2
    /\ HasObject(last.st.bucket, Stripped(last.st.folder[1]) \o <<"/">> \o METADATA_KEY)
    /\ ~HasObject(last.st.bucket, last.st.folder[1] \o <<"/">> \o METADATA_KEY)
    /\ HasObject(last.st.bucket, LATEST_INDEX_KEY)

\* C18: while update_latest_index calls race on a bucket whose latest index
\* was v0 at the start (absent: 0) and nothing else writes the object, the
\* object is the initial one or holds an index strictly above v0.
C18_AboveInitial ==
    \A b \in Buckets :
        \/ ObjectAt(objects, b, LATEST_INDEX_KEY)
               = (IF hist.initial[b] = None THEN None
                  ELSE Some(U32ToJson(hist.initial[b][1])))
        \/ /\ HasObject(b, LATEST_INDEX_KEY)
           /\ U32FromJson(objects[<<b, LATEST_INDEX_KEY>>]).tag = "Ok"
           /\ U32FromJson(objects[<<b, LATEST_INDEX_KEY>>]).val
                  > (IF hist.initial[b] = None THEN 0 ELSE hist.initial[b][1])

\* C18, witness: on a bucket that held a latest index at the start, racing
\* calls have lost an update: the stored index is below one that was
\* committed, and still above the initial one.
C18_Witness ==
    /\ AllIdle
    /\ \E b \in Buckets :
          /\ hist.initial[b] # None
          /\ hist.committed[b] # {}
          /\ StoredLatest(objects, b)[1] < Max(hist.committed[b])
          /\ StoredLatest(objects, b)[1] > hist.initial[b][1]

\* The places whose object differs between objs1 and objs2.
Changed(objs1, objs2) ==
    {x \in DOMAIN objs1 \cup DOMAIN objs2 :
        ObjectAt(objs1, x[1], x[2]) # ObjectAt(objs2, x[1], x[2])}

\* C19: a step that changes an object is a write_checkpoint, which changes
\* the checkpoint object of its checkpoint's index and nothing else, or a
\* write_latest_index or update_latest_index, which changes the latest-index
\* object and nothing else.
C19_Frame ==
    [][objects' # objects
          => \/ /\ last'.op = "write_checkpoint"
                /\ Changed(objects, objects')
                       = {<<last'.st.bucket,
                            <<"checkpoint_">> \o FormatU32(last'.arg.value.index)
                                \o <<"_with_id.json">>>>}
             \/ /\ last'.op \in {"write_latest_index", "update_latest_index"}
                /\ Changed(objects, objects')
                       = {<<last'.st.bucket, <<"gcsLatestIndexKey">>>>}]_vars

\* C19, witness: fetch_checkpoint(i) has returned None while the stored latest
\* index is i, the bucket holds a checkpoint of an index above i, and
\* metadata, announcement and reorg flag are in place.
C19_Witness ==
    /\ last.op = "fetch_checkpoint"
    /\ last.res = Ok(None)
    /\ StoredLatest(objects, last.st.bucket) = Some(last.arg)
    /\ \E j \in CheckpointIndices :
          /\ j > last.arg
          /\ HasObject(last.st.bucket, get_checkpoint_key(j))
    /\ HasObject(last.st.bucket, metadata_object_name(StoreA))
    /\ HasObject(last.st.bucket, announcement_object_name(StoreA))
    /\ HasObject(last.st.bucket, REORG_FLAG_KEY)

====
